---- MODULE Spec2Model ----
(***************************************************************************)
(* A model of the PreToolUse hooks of claude-hooks:                         *)
(*   hooks/fix_bash_command.py   (the Bash hook: validators, fixers, the    *)
(*                                audit log, main)                          *)
(*   hooks/check_file_content.py (the content scanner's _is_enabled)        *)
(*                                                                         *)
(* A command is a sequence of characters; a character is a one-character    *)
(* string, and a code point outside ASCII is written by its name           *)
(* ("U+1F600").  Every regular expression of the source is an operator      *)
(* over such sequences that matches what the expression matches.           *)
(***************************************************************************)
EXTENDS Integers, Sequences, FiniteSets, TLC

(***************************************************************************)
(* Characters and character classes                                        *)
(***************************************************************************)
LowerSeq ==
    <<"a","b","c","d","e","f","g","h","i","j","k","l","m",
      "n","o","p","q","r","s","t","u","v","w","x","y","z">>

UpperSeq ==
    <<"A","B","C","D","E","F","G","H","I","J","K","L","M",
      "N","O","P","Q","R","S","T","U","V","W","X","Y","Z">>

LowerSet == {LowerSeq[i] : i \in 1..26}

UpperSet == {UpperSeq[i] : i \in 1..26}

\* [A-Za-z]
Letters == LowerSet \cup UpperSet

\* [0-9]
Digits == {"0","1","2","3","4","5","6","7","8","9"}

\* \w (a str pattern: the letters outside ASCII are word characters too)
WordChars == Letters \cup Digits \cup {"_", "U+00E9"}

\* \s
Ws == {" ", "\t", "\n"}

BS == "\\"

DQ == "\""

SQ == "'"

\* The code points outside ASCII that commands of the model hold.
CodePoint ==
    [c \in {"U+1F600", "U+2728", "U+00E9"} |->
        CASE c = "U+1F600" -> 128512
          [] c = "U+2728"  -> 10024
          [] c = "U+00E9"  -> 233]

LowerMap == [c \in UpperSet |-> LowerSeq[CHOOSE i \in 1..26 : UpperSeq[i] = c]]

UpperMap == [c \in LowerSet |-> UpperSeq[CHOOSE i \in 1..26 : LowerSeq[i] = c]]

\* str.lower() and str.upper() on one character
ToLower(c) == IF c \in UpperSet THEN LowerMap[c] ELSE c

ToUpper(c) == IF c \in LowerSet THEN UpperMap[c] ELSE c

LowerStr(s) == [i \in 1..Len(s) |-> ToLower(s[i])]

(***************************************************************************)
(* Regular-expression primitives                                           *)
(***************************************************************************)
\* The character at position i, "" outside the string.
At(s, i) == IF i >= 1 /\ i <= Len(s) THEN s[i] ELSE ""

\* s[i:] and s[:i-1] of Python, 1-based
From(s, i) == IF i > Len(s) THEN <<>> ELSE SubSeq(s, i, Len(s))

Upto(s, i) == IF i < 1 THEN <<>> ELSE SubSeq(s, 1, i)

\* The literal lit stands at position i.
LitAt(s, i, lit) ==
    /\ i >= 1
    /\ i + Len(lit) - 1 <= Len(s)
    /\ \A k \in 1..Len(lit) : s[i + k - 1] = lit[k]

\* The same under re.IGNORECASE (lit is written in lower case).
LitAtCI(s, i, lit) ==
    /\ i >= 1
    /\ i + Len(lit) - 1 <= Len(s)
    /\ \A k \in 1..Len(lit) : ToLower(s[i + k - 1]) = lit[k]

\* The end of the longest run of characters of cls starting at i (greedy cls*).
SkipWhile(s, i, cls) ==
    CHOOSE j \in i..(Len(s) + 1) :
        /\ \A k \in i..(j - 1) : s[k] \in cls
        /\ j = Len(s) + 1 \/ s[j] \notin cls

\* The end of the longest run of characters outside cls starting at i.
SkipUntil(s, i, cls) ==
    CHOOSE j \in i..(Len(s) + 1) :
        /\ \A k \in i..(j - 1) : s[k] \notin cls
        /\ j = Len(s) + 1 \/ s[j] \in cls

\* \b between positions i-1 and i
WordBoundary(s, i) == (At(s, i - 1) \in WordChars) # (At(s, i) \in WordChars)

\* The leftmost position satisfying P, 0 when there is none (re.search).
FirstPos(s, P(_, _)) ==
    IF \E i \in 1..Len(s) : P(s, i)
    THEN CHOOSE i \in 1..Len(s) : P(s, i) /\ \A k \in 1..(i - 1) : ~P(s, k)
    ELSE 0

\* re.sub: left to right, non-overlapping.  E(s, i) is the position after the
\* match that starts at i (0: no match there), R(s, i) its replacement.
SubAll(s, E(_, _), R(_, _)) ==
    LET f[i \in 1..(Len(s) + 1)] ==
            IF i > Len(s) THEN <<>>
            ELSE IF E(s, i) > 0 THEN R(s, i) \o f[E(s, i)]
            ELSE <<s[i]>> \o f[i + 1]
    IN  f[1]

\* re.finditer: the start positions of the non-overlapping matches, in order.
IterAll(s, E(_, _)) ==
    LET f[i \in 1..(Len(s) + 1)] ==
            IF i > Len(s) THEN <<>>
            ELSE IF E(s, i) > 0 THEN <<i>> \o f[E(s, i)]
            ELSE f[i + 1]
    IN  f[1]

\* str.count(ch)
Count(s, ch) == Cardinality({i \in 1..Len(s) : s[i] = ch})

\* str.lstrip(), str.strip(), str.strip(chars)
LStrip(s) == From(s, SkipWhile(s, 1, Ws))

RStripSet(s, cls) ==
    IF \E i \in 1..Len(s) : s[i] \notin cls
    THEN Upto(s, CHOOSE i \in 1..Len(s) :
                    s[i] \notin cls /\ \A k \in (i + 1)..Len(s) : s[k] \in cls)
    ELSE <<>>

StripSet(s, cls) == RStripSet(From(s, SkipWhile(s, 1, cls)), cls)

Strip(s) == StripSet(s, Ws)

\* " ".join(seq of strings)
RECURSIVE JoinSp(_)
JoinSp(ss) ==
    IF Len(ss) = 0 THEN <<>>
    ELSE IF Len(ss) = 1 THEN ss[1]
    ELSE ss[1] \o <<" ">> \o JoinSp(Tail(ss))

(***************************************************************************)
(* Configuration (fix_bash_command.py 29-90, check_file_content.py 46-53)  *)
(***************************************************************************)
\* The validators in the order main calls them, then the fixers likewise.
Tier2 ==
    <<"git_commit_attribution", "git_commit_generated", "git_commit_emoji",
      "cmd_workaround", "powershell_legacy", "wsl_invocation", "wsl_paths",
      "dir_in_pwsh", "reserved_names", "doubled_flags", "backslash_paths",
      "unc_paths">>

Tier1 ==
    <<"nul_redirect", "msys2_drive_paths", "python3", "dir_windows_flags",
      "pwsh_quoting">>

Tier2Set == {Tier2[i] : i \in 1..Len(Tier2)}

Tier1Set == {Tier1[i] : i \in 1..Len(Tier1)}

\* _DEFAULTS: safety checks on, style checks off
_DEFAULTS ==
    [c \in Tier2Set \cup Tier1Set |->
        c \notin {"git_commit_attribution", "git_commit_generated",
                  "git_commit_emoji"}]

\* An optional boolean (None, True, False) is the set of its values.
None == {}

Some(b) == {b}

TheValue(opt) == CHOOSE b \in opt : TRUE

\* _is_enabled of fix_bash_command.py: the override, then the caller's default,
\* then _DEFAULTS.get(check_id, True).
_is_enabled(config, check_id, default) ==
    IF check_id \in DOMAIN config THEN config[check_id]
    ELSE IF default # None THEN TheValue(default)
    ELSE IF check_id \in DOMAIN _DEFAULTS THEN _DEFAULTS[check_id]
    ELSE TRUE

\* _is_enabled of check_file_content.py: the override, the caller's default, False.
scanner_is_enabled(config, check_id, default) ==
    IF check_id \in DOMAIN config THEN config[check_id]
    ELSE IF default # None THEN TheValue(default)
    ELSE FALSE

\* The default main passes with each check's _is_enabled call (587-637).
MainDefault(check_id) ==
    IF check_id \in {"git_commit_attribution", "git_commit_generated",
                     "git_commit_emoji"}
    THEN Some(FALSE) ELSE None

\* main consulting the flag of nul_redirect before the python3 fixer
GateId_shared(check_id) ==
    IF check_id = "python3" THEN "nul_redirect" ELSE check_id

\* The check id whose flag main consults before the check at a position.
GateId(check_id) == check_id

\* Whether main runs a check under a configuration.
Enabled(config, check_id) ==
    _is_enabled(config, GateId(check_id), MainDefault(GateId(check_id)))

(***************************************************************************)
(* Tier 2: the blocking checks (fix_bash_command.py 150-448).              *)
(* A check returns a Finding: match says whether it blocks; logged whether *)
(* it calls log_fixup first, with fix type fix and the proposed command    *)
(* (has_proposed FALSE: log_fixup(cmd, None, ...)); msg is the text block  *)
(* prints, as the message's name and the strings put into it.              *)
(***************************************************************************)
NoFinding ==
    [match |-> FALSE, logged |-> FALSE, fix |-> "", has_proposed |-> FALSE,
     proposed |-> <<>>, msg |-> [id |-> "", args |-> <<>>]]

Block(id, args) ==
    [match |-> TRUE, logged |-> FALSE, fix |-> "", has_proposed |-> FALSE,
     proposed |-> <<>>, msg |-> [id |-> id, args |-> args]]

LogAndBlock(fix, has_proposed, proposed, id, args) ==
    [match |-> TRUE, logged |-> TRUE, fix |-> fix, has_proposed |-> has_proposed,
     proposed |-> proposed, msg |-> [id |-> id, args |-> args]]

\* WINDOWS_RESERVED_NAMES
WINDOWS_RESERVED_NAMES ==
    { <<"c","o","n">>, <<"p","r","n">>, <<"a","u","x">>, <<"n","u","l">> }
    \cup { <<"c","o","m",d>> : d \in Digits \ {"0"} }
    \cup { <<"l","p","t",d>> : d \in Digits \ {"0"} }

\* EMOJI_RE: the code-point ranges of the character class
EMOJI_RE(c) ==
    /\ c \in DOMAIN CodePoint
    /\ LET cp == CodePoint[c]
       IN  \/ cp >= 128512 /\ cp <= 128591
           \/ cp >= 127744 /\ cp <= 128511
           \/ cp >= 128640 /\ cp <= 128767
           \/ cp >= 127456 /\ cp <= 127487
           \/ cp >= 129280 /\ cp <= 129535
           \/ cp >= 129536 /\ cp <= 129647
           \/ cp >= 129648 /\ cp <= 129791
           \/ cp >= 9728 /\ cp <= 10175
           \/ cp >= 65024 /\ cp <= 65039

\* \bgit\s+commit\b at position i
GitCommitAt(s, i) ==
    /\ WordBoundary(s, i)
    /\ LitAt(s, i, <<"g","i","t">>)
    /\ At(s, i + 3) \in Ws
    /\ LET j == SkipWhile(s, i + 3, Ws)
       IN  LitAt(s, j, <<"c","o","m","m","i","t">>) /\ WordBoundary(s, j + 6)

IsGitCommit(s) == \E i \in 1..Len(s) : GitCommitAt(s, i)

ContainsCI(s, lit) == \E i \in 1..Len(s) : LitAtCI(s, i, lit)

check_git_commit_attribution(cmd) ==
    IF ~IsGitCommit(cmd) THEN NoFinding
    ELSE IF ContainsCI(cmd, <<"c","o","-","a","u","t","h","o","r","e","d","-","b","y">>)
    THEN Block("Commit message contains Co-Authored-By", <<>>)
    ELSE NoFinding

check_git_commit_generated(cmd) ==
    IF ~IsGitCommit(cmd) THEN NoFinding
    ELSE IF ContainsCI(cmd, <<"g","e","n","e","r","a","t","e","d"," ","w","i","t","h">>)
    THEN Block("Commit message contains 'Generated with'", <<>>)
    ELSE NoFinding

check_git_commit_emoji(cmd) ==
    IF ~IsGitCommit(cmd) THEN NoFinding
    ELSE IF \E i \in 1..Len(cmd) : EMOJI_RE(cmd[i])
    THEN Block("Commit message contains emoji", <<>>)
    ELSE NoFinding

\* The positions after name(\.exe)? at the start of s, under IGNORECASE.
AfterExe(s, i, name) ==
    IF ~LitAtCI(s, i, name) THEN {}
    ELSE {i + Len(name)}
         \cup (IF LitAtCI(s, i + Len(name), <<".","e","x","e">>)
               THEN {i + Len(name) + 4} ELSE {})

\* cmd(\.exe)?\s+//c\b matched at the start of s
CmdDoubleSlashC(s) ==
    \E e \in AfterExe(s, 1, <<"c","m","d">>) :
        /\ At(s, e) \in Ws
        /\ LET j == SkipWhile(s, e, Ws)
           IN  LitAtCI(s, j, <<"/","/","c">>) /\ WordBoundary(s, j + 3)

\* cmd(\.exe)?\s+(//c|/c)\b matched at the start of s
CmdSlashC(s) ==
    \E e \in AfterExe(s, 1, <<"c","m","d">>) :
        /\ At(s, e) \in Ws
        /\ LET j == SkipWhile(s, e, Ws)
           IN  \/ LitAtCI(s, j, <<"/","/","c">>) /\ WordBoundary(s, j + 3)
               \/ LitAtCI(s, j, <<"/","c">>) /\ WordBoundary(s, j + 2)

check_cmd_workaround(cmd) ==
    IF CmdSlashC(LStrip(cmd)) THEN Block("Avoid cmd /c as a workaround", <<>>)
    ELSE NoFinding

check_powershell_file_for_oneliner(cmd) ==
    IF \E e \in AfterExe(LStrip(cmd), 1, <<"p","o","w","e","r","s","h","e","l","l">>) :
            At(LStrip(cmd), e) \in Ws
    THEN Block("Use pwsh (PowerShell 7+) instead of powershell.exe", <<>>)
    ELSE NoFinding

check_wsl_invocation(cmd, wsl_installed) ==
    LET stripped == LStrip(cmd)
    IN  IF ~(\E e \in AfterExe(stripped, 1, <<"w","s","l">>) : At(stripped, e) \in Ws)
        THEN NoFinding
        ELSE IF At(stripped, 1) \in Letters /\ LitAt(stripped, 2, <<":","/">>)
        THEN NoFinding
        ELSE IF wsl_installed
        THEN Block("You are running in Git Bash on native Windows, not inside WSL", <<>>)
        ELSE Block("WSL is not installed", <<>>)

\* /mnt/([a-zA-Z])/ : the position after the match at i, 0 when there is none
MntEnd(s, i) ==
    IF LitAt(s, i, <<"/","m","n","t","/">>) /\ At(s, i + 5) \in Letters
       /\ At(s, i + 6) = "/"
    THEN i + 7 ELSE 0

MntIs(s, i) == MntEnd(s, i) > 0

MntRepl(s, i) == <<ToUpper(s[i + 5]), ":", "/">>

check_wsl_paths(cmd, in_wsl) ==
    IF in_wsl THEN NoFinding
    ELSE LET m == FirstPos(cmd, MntIs)
         IN  IF m = 0 THEN NoFinding
             ELSE LET proposed == SubAll(cmd, MntEnd, MntRepl)
                  IN  LogAndBlock("wsl_path", TRUE, proposed,
                                  "is a WSL mount path",
                                  << <<cmd[m + 5]>>, cmd, proposed >>)

\* \bpwsh(?:\.exe)?\s+(?:-Command|-c)\b at position i, under IGNORECASE
PwshCommandAt(s, i) ==
    /\ WordBoundary(s, i)
    /\ \E e \in AfterExe(s, i, <<"p","w","s","h">>) :
        /\ At(s, e) \in Ws
        /\ LET j == SkipWhile(s, e, Ws)
           IN  \/ LitAtCI(s, j, <<"-","c","o","m","m","a","n","d">>)
                  /\ WordBoundary(s, j + 8)
               \/ LitAtCI(s, j, <<"-","c">>) /\ WordBoundary(s, j + 2)

\* \bdir\s+(/[a-zA-Z]) at position i, under IGNORECASE
DirFlagAt(s, i) ==
    /\ WordBoundary(s, i)
    /\ LitAtCI(s, i, <<"d","i","r">>)
    /\ At(s, i + 3) \in Ws
    /\ LET j == SkipWhile(s, i + 3, Ws)
       IN  At(s, j) = "/" /\ At(s, j + 1) \in Letters

check_dir_in_pwsh(cmd) ==
    IF ~(\E i \in 1..Len(cmd) : PwshCommandAt(cmd, i)) THEN NoFinding
    ELSE LET dm == FirstPos(cmd, DirFlagAt)
         IN  IF dm = 0 THEN NoFinding
             ELSE LET j == SkipWhile(cmd, dm + 3, Ws)
                      flag == <<"/", ToLower(cmd[j + 1])>>
                      suggestion ==
                          CASE flag = <<"/","b">> ->
                                 "Get-ChildItem path | Select-Object -ExpandProperty Name"
                            [] flag = <<"/","s">> -> "Get-ChildItem path -Recurse"
                            [] flag = <<"/","a">> -> "Get-ChildItem path -Force"
                            [] OTHER -> "Get-ChildItem path"
                  IN  LogAndBlock("dir_in_pwsh", FALSE, <<>>,
                                  "is a cmd.exe flag", << flag, <<suggestion>> >>)

\* $ under re.MULTILINE after \s*: white space up to the end of the string or
\* to a position just before a newline
ResTailOK(s, r) ==
    \E k \in r..(Len(s) + 1) :
        /\ \A m \in r..(k - 1) : s[m] \in Ws
        /\ k = Len(s) + 1 \/ s[k] = "\n"

\* (?:\.[\w.]+) followed by \s*$
ResExtOK(s, r) ==
    /\ At(s, r) = "."
    /\ \E e \in (r + 2)..(Len(s) + 1) :
        /\ \A m \in (r + 1)..(e - 1) : s[m] \in WordChars \cup {"."}
        /\ ResTailOK(s, e)

\* Where the redirection operator of _RESERVED_RE ends when it starts at i.
RedirOpEnd(s, i) ==
    LET p == IF At(s, i) \in {"&", "0", "1", "2"} THEN i + 1 ELSE i
    IN  IF At(s, p) = ">" THEN p + 1 ELSE 0

\* _RESERVED_RE matches at position i
_RESERVED_RE(s, i) ==
    /\ ~LitAt(s, i - 5, <<"/","d","e","v","/">>)
    /\ RedirOpEnd(s, i) > 0
    /\ LET q == SkipWhile(s, RedirOpEnd(s, i), Ws)
       IN  \E n \in WINDOWS_RESERVED_NAMES :
              /\ LitAtCI(s, q, n)
              /\ ResTailOK(s, q + Len(n)) \/ ResExtOK(s, q + Len(n))

\* group 2 of the match of _RESERVED_RE at i
ReservedGroup2(s, i) ==
    LET q == SkipWhile(s, RedirOpEnd(s, i), Ws)
        n == CHOOSE n \in WINDOWS_RESERVED_NAMES : LitAtCI(s, q, n)
    IN  SubSeq(s, q, q + Len(n) - 1)

\* (?:touch|mkdir|cp|mv|cat\s*>|tee) at i: the position after it, 0 for none
FileCmdEnd(s, i) ==
    IF LitAt(s, i, <<"t","o","u","c","h">>) THEN i + 5
    ELSE IF LitAt(s, i, <<"m","k","d","i","r">>) THEN i + 5
    ELSE IF LitAt(s, i, <<"c","p">>) THEN i + 2
    ELSE IF LitAt(s, i, <<"m","v">>) THEN i + 2
    ELSE IF LitAt(s, i, <<"c","a","t">>)
            /\ At(s, SkipWhile(s, i + 3, Ws)) = ">"
         THEN SkipWhile(s, i + 3, Ws) + 1
    ELSE IF LitAt(s, i, <<"t","e","e">>) THEN i + 3
    ELSE 0

\* \b(?:touch|...)\s+(\S+) at i
FileArgAt(s, i) ==
    /\ WordBoundary(s, i)
    /\ FileCmdEnd(s, i) > 0
    /\ At(s, FileCmdEnd(s, i)) \in Ws
    /\ SkipWhile(s, FileCmdEnd(s, i), Ws) <= Len(s)

FileArgGroup1(s, i) ==
    LET a == SkipWhile(s, FileCmdEnd(s, i), Ws)
    IN  SubSeq(s, a, SkipUntil(s, a, Ws) - 1)

\* s.rsplit(ch, 1)[-1]
AfterLast(s, ch) ==
    IF \E i \in 1..Len(s) : s[i] = ch
    THEN From(s, 1 + CHOOSE i \in 1..Len(s) :
                        s[i] = ch /\ \A k \in (i + 1)..Len(s) : s[k] # ch)
    ELSE s

\* s.split(ch, 1)[0]
BeforeFirst(s, ch) == Upto(s, SkipUntil(s, 1, {ch}) - 1)

check_reserved_file(cmd) ==
    LET fm == FirstPos(cmd, FileArgAt)
    IN  IF fm = 0 THEN NoFinding
        ELSE LET filename == StripSet(FileArgGroup1(cmd, fm), {DQ, SQ})
                 basename == AfterLast(AfterLast(filename, "/"), BS)
                 stem == LowerStr(BeforeFirst(basename, "."))
             IN  IF stem \in WINDOWS_RESERVED_NAMES
                 THEN LogAndBlock("reserved_name_file", FALSE, <<>>,
                                  "uses Windows reserved name", <<basename, stem>>)
                 ELSE NoFinding

check_reserved_names(cmd) ==
    LET m == FirstPos(cmd, _RESERVED_RE)
    IN  IF m > 0 /\ LowerStr(ReservedGroup2(cmd, m)) # <<"n","u","l">>
        THEN LogAndBlock("reserved_name_redirect", FALSE, <<>>,
                         "is a Windows reserved device name",
                         << ReservedGroup2(cmd, m) >>)
        ELSE check_reserved_file(cmd)

\* https?://
HasUrl(s) ==
    \E i \in 1..Len(s) :
        /\ LitAt(s, i, <<"h","t","t","p">>)
        /\ LitAt(s, i + 4, <<":","/","/">>) \/ LitAt(s, i + 4, <<"s",":","/","/">>)

\* (?:^|\s)(//([a-zA-Z]{1,4}))(?=\s|$|\") with group 1 starting at g
DoubledAt(s, g) ==
    /\ g = 1 \/ At(s, g - 1) \in Ws
    /\ LitAt(s, g, <<"/","/">>)
    /\ LET r == SkipWhile(s, g + 2, Letters)
       IN  /\ r - (g + 2) \in 1..4
           /\ r = Len(s) + 1 \/ s[r] \in Ws \/ s[r] = DQ

\* A match the loop of check_doubled_flags does not skip
DoubledReported(s, g) ==
    DoubledAt(s, g) /\ At(s, SkipWhile(s, g + 2, Letters)) # "/"

check_doubled_flags(cmd) ==
    IF HasUrl(cmd) THEN NoFinding
    ELSE IF CmdDoubleSlashC(LStrip(cmd)) THEN NoFinding
    ELSE LET g == FirstPos(cmd, DoubledReported)
         IN  IF g = 0 THEN NoFinding
             ELSE LET proposed == Upto(cmd, g - 1) \o From(cmd, g + 1)
                  IN  LogAndBlock("doubled_flag", TRUE, proposed,
                                  "Doubled // flags break Windows commands",
                                  <<cmd, proposed>>)

\* ([A-Za-z]):\\([A-Za-z]) at i: the position after the match, 0 for none
BsPathEnd(s, i) ==
    IF At(s, i) \in Letters /\ At(s, i + 1) = ":" /\ At(s, i + 2) = BS
       /\ At(s, i + 3) \in Letters
    THEN i + 4 ELSE 0

\* [A-Za-z]:\\[^\s'\"]* at i
BsSubEnd(s, i) ==
    IF At(s, i) \in Letters /\ At(s, i + 1) = ":" /\ At(s, i + 2) = BS
    THEN SkipUntil(s, i + 3, Ws \cup {SQ, DQ}) ELSE 0

\* str.replace("\\", "/")
Slashed(s) == [k \in 1..Len(s) |-> IF s[k] = BS THEN "/" ELSE s[k]]

BsSubRepl(s, i) == Slashed(SubSeq(s, i, BsSubEnd(s, i) - 1))

\* A loop that returns at the first match in single quotes instead of going on
\* to the next match.
FirstUnquoted_returns_on_skip(cmd, matches) ==
    IF Len(matches) > 0 /\ Count(Upto(cmd, matches[1] - 1), SQ) % 2 = 0
    THEN matches[1]
    ELSE 0

\* The first match of a finditer that stands at even single-quote parity, 0
\* when every match is skipped.
FirstUnquoted(cmd, matches) ==
    IF \E k \in 1..Len(matches) : Count(Upto(cmd, matches[k] - 1), SQ) % 2 = 0
    THEN matches[CHOOSE k \in 1..Len(matches) :
                    /\ Count(Upto(cmd, matches[k] - 1), SQ) % 2 = 0
                    /\ \A j \in 1..(k - 1) :
                          Count(Upto(cmd, matches[j] - 1), SQ) % 2 = 1]
    ELSE 0

check_backslash_paths(cmd) ==
    IF FirstUnquoted(cmd, IterAll(cmd, BsPathEnd)) = 0 THEN NoFinding
    ELSE LET proposed == SubAll(cmd, BsSubEnd, BsSubRepl)
         IN  LogAndBlock("backslash_path", TRUE, proposed,
                         "Windows backslash paths don't work reliably in Git Bash",
                         <<cmd, proposed>>)

UncNameChars == Letters \cup Digits \cup {".", "_", "-"}

\* \\\\([A-Za-z0-9._-]+)\\([^\s'\"]*) at i
UncEnd(s, i) ==
    IF ~LitAt(s, i, <<BS, BS>>) THEN 0
    ELSE LET n == SkipWhile(s, i + 2, UncNameChars)
         IN  IF n > i + 2 /\ At(s, n) = BS
             THEN SkipUntil(s, n + 1, Ws \cup {SQ, DQ}) ELSE 0

UncRepl(s, i) ==
    LET n == SkipWhile(s, i + 2, UncNameChars)
    IN  <<"/", "/">> \o SubSeq(s, i + 2, n - 1) \o <<"/">>
        \o Slashed(SubSeq(s, n + 1, UncEnd(s, i) - 1))

check_unc_paths(cmd) ==
    IF FirstUnquoted(cmd, IterAll(cmd, UncEnd)) = 0 THEN NoFinding
    ELSE LET proposed == SubAll(cmd, UncEnd, UncRepl)
         IN  LogAndBlock("unc_path", TRUE, proposed,
                         "UNC paths with backslashes don't work in Git Bash",
                         <<cmd, proposed>>)

(***************************************************************************)
(* Tier 1: the auto-fixes (fix_bash_command.py 455-565)                    *)
(***************************************************************************)
\* (?<!/dev/)((?:&|[012])?>)\s*nul\b at i, under IGNORECASE
NulEnd(s, i) ==
    IF /\ ~LitAt(s, i - 5, <<"/","d","e","v","/">>)
       /\ RedirOpEnd(s, i) > 0
       /\ LitAtCI(s, SkipWhile(s, RedirOpEnd(s, i), Ws), <<"n","u","l">>)
       /\ WordBoundary(s, SkipWhile(s, RedirOpEnd(s, i), Ws) + 3)
    THEN SkipWhile(s, RedirOpEnd(s, i), Ws) + 3
    ELSE 0

\* \1 /dev/null
NulRepl(s, i) ==
    SubSeq(s, i, RedirOpEnd(s, i) - 1) \o <<" ","/","d","e","v","/","n","u","l","l">>

fix_nul_redirect(cmd) == SubAll(cmd, NulEnd, NulRepl)

\* (?:^|(?<=\s))/([a-zA-Z])/ at i
MsysEnd(s, i) ==
    IF /\ i = 1 \/ At(s, i - 1) \in Ws
       /\ At(s, i) = "/"
       /\ At(s, i + 1) \in Letters
       /\ At(s, i + 2) = "/"
    THEN i + 3 ELSE 0

MsysRepl(s, i) == <<ToUpper(s[i + 1]), ":", "/">>

fix_msys2_drive_paths(cmd) == SubAll(cmd, MsysEnd, MsysRepl)

\* \bpython3\b at i
Python3End(s, i) ==
    IF /\ WordBoundary(s, i)
       /\ LitAt(s, i, <<"p","y","t","h","o","n","3">>)
       /\ WordBoundary(s, i + 7)
    THEN i + 7 ELSE 0

Python3Repl(s, i) == <<"p","y","t","h","o","n">>

fix_python3(cmd) == SubAll(cmd, Python3End, Python3Repl)

\* _DIR_FLAG_MAP
_DIR_FLAG_MAP ==
    [f \in {"b", "s", "a", "w", "n", "q"} |->
        CASE f = "b" -> <<"-","1">>
          [] f = "s" -> <<"-","R">>
          [] f = "a" -> <<"-","l","a">>
          [] f = "w" -> <<>>
          [] f = "n" -> <<"-","l">>
          [] f = "q" -> <<"-","l">>]

\* ^(/[a-zA-Z])(?::[a-zA-Z]*)?\s*(.*) : whether rest starts with a flag token,
\* and where group 2 starts
DirTokenIs(rest) == At(rest, 1) = "/" /\ At(rest, 2) \in Letters

DirTokenRest(rest) ==
    LET p == IF At(rest, 3) = ":" THEN SkipWhile(rest, 4, Letters) ELSE 3
    IN  From(rest, SkipWhile(rest, p, Ws))

\* The loop that consumes the leading flag tokens: the flags and what is left.
RECURSIVE DirConsume(_, _)
DirConsume(flags, rest) ==
    IF DirTokenIs(rest)
    THEN DirConsume(Append(flags, ToLower(rest[2])), DirTokenRest(rest))
    ELSE [flags |-> flags, rest |-> rest]

\* A loop that appends the equivalent of every flag, seen before or not.
RECURSIVE LsFlags_with_repeats(_, _)
LsFlags_with_repeats(flags, acc) ==
    IF flags = <<>> THEN acc
    ELSE LET mapped == _DIR_FLAG_MAP[Head(flags)]
         IN  LsFlags_with_repeats(Tail(flags),
                                  IF mapped # <<>> THEN Append(acc, mapped)
                                  ELSE acc)

\* The ls flags of the given dir flags: each mapped one once, in first order.
RECURSIVE LsFlags(_, _)
LsFlags(flags, acc) ==
    IF flags = <<>> THEN acc
    ELSE LET mapped == _DIR_FLAG_MAP[Head(flags)]
         IN  LsFlags(Tail(flags),
                     IF mapped # <<>> /\ \A k \in 1..Len(acc) : acc[k] # mapped
                     THEN Append(acc, mapped) ELSE acc)

fix_dir_windows_flags(cmd) ==
    LET st == Strip(cmd)
    IN  IF ~(LitAtCI(st, 1, <<"d","i","r">>) /\ WordBoundary(st, 4)) THEN cmd
        ELSE LET c == DirConsume(<<>>, Strip(From(st, 4)))
             IN  IF c.flags = <<>> THEN cmd
                 ELSE IF \E k \in 1..Len(c.flags) : c.flags[k] \notin DOMAIN _DIR_FLAG_MAP
                 THEN cmd
                 ELSE LET ls_flags == LsFlags(c.flags, <<>>)
                          path_part == Strip(c.rest)
                      IN  Strip(<<"l","s">>
                                \o (IF ls_flags # <<>>
                                    THEN <<" ">> \o JoinSp(ls_flags) ELSE <<>>)
                                \o (IF path_part # <<>>
                                    THEN <<" ">> \o path_part ELSE <<>>))

\* (pwsh(?:\.exe)?\s+(?:-Command|-c)\s+)"([^"]*)" at i, under IGNORECASE: the
\* position of the opening double quote, 0 when there is no match at i
PwshQuoteOpen(s, i) ==
    LET es == {e \in AfterExe(s, i, <<"p","w","s","h">>) : At(s, e) \in Ws}
    IN  IF es = {} THEN 0
        ELSE LET j == SkipWhile(s, CHOOSE e \in es : TRUE, Ws)
                 o == IF LitAtCI(s, j, <<"-","c","o","m","m","a","n","d">>)
                         /\ At(s, j + 8) \in Ws
                      THEN j + 8
                      ELSE IF LitAtCI(s, j, <<"-","c">>) /\ At(s, j + 2) \in Ws
                      THEN j + 2 ELSE 0
             IN  IF o = 0 THEN 0
                 ELSE LET k == SkipWhile(s, o, Ws)
                      IN  IF At(s, k) = DQ /\ SkipUntil(s, k + 1, {DQ}) <= Len(s)
                          THEN k ELSE 0

PwshQuoteIs(s, i) == PwshQuoteOpen(s, i) > 0

\* group 2 of the first match: the content between the double quotes
PwshContent(cmd) ==
    LET k == PwshQuoteOpen(cmd, FirstPos(cmd, PwshQuoteIs))
    IN  SubSeq(cmd, k + 1, SkipUntil(cmd, k + 1, {DQ}) - 1)

\* fix_pwsh_quoting without the test for an embedded single quote
fix_pwsh_quoting_rewrites_always(cmd) ==
    IF FirstPos(cmd, PwshQuoteIs) = 0 THEN [cmd |-> cmd, err |-> FALSE]
    ELSE IF \A k \in 1..Len(PwshContent(cmd)) : PwshContent(cmd)[k] # "$"
    THEN [cmd |-> cmd, err |-> FALSE]
    ELSE LET k == PwshQuoteOpen(cmd, FirstPos(cmd, PwshQuoteIs))
         IN  [cmd |-> [cmd EXCEPT ![k] = SQ,
                                  ![SkipUntil(cmd, k + 1, {DQ})] = SQ],
              err |-> FALSE]

\* fix_pwsh_quoting returns (fixed_cmd, error_message_or_None)
fix_pwsh_quoting(cmd) ==
    IF FirstPos(cmd, PwshQuoteIs) = 0 THEN [cmd |-> cmd, err |-> FALSE]
    ELSE IF \A k \in 1..Len(PwshContent(cmd)) : PwshContent(cmd)[k] # "$"
    THEN [cmd |-> cmd, err |-> FALSE]
    ELSE IF \E k \in 1..Len(PwshContent(cmd)) : PwshContent(cmd)[k] = SQ
    THEN [cmd |-> cmd, err |-> TRUE]
    ELSE LET k == PwshQuoteOpen(cmd, FirstPos(cmd, PwshQuoteIs))
         IN  [cmd |-> [cmd EXCEPT ![k] = SQ,
                                  ![SkipUntil(cmd, k + 1, {DQ})] = SQ],
              err |-> FALSE]

(***************************************************************************)
(* The audit log and one run of main (fix_bash_command.py 92-142, 572-660) *)
(***************************************************************************)
MAX_LOG_LINES == 500

TRIM_TO_LINES == 250

\* How many runs of the hook follow one another in SpecSeq.
MaxInvocations == 3

VARIABLES
    pc,           \* where the process stands
    request,      \* what standard input holds
    config,       \* what _load_config returns: the overrides of config.json
    in_wsl,       \* _in_wsl: WSL_DISTRO_NAME is in the environment
    command,      \* main's command
    original,     \* main's original
    fixes,        \* main's fixes
    vidx,         \* the position in Tier2 main has reached
    fidx,         \* the position in Tier1 main has reached
    stdout,       \* what the process has written to standard output
    stderr,       \* what the process has written to standard error
    exit_code,    \* the exit status, -1 while the process runs
    log,          \* the lines of fixups.log
    entry,        \* _log_entry's entry
    after_log,    \* where main goes on when _log_entry returns
    pending_msg,  \* the message of the block that follows log_fixup
    lines,        \* _trim_log_if_needed's lines
    clock,        \* the number of the run: datetime.now() of its entries
    evaluated,    \* history: the checks this run has called, in order
    appended,     \* history: the entries this run has appended
    log_before,   \* history: the log as the last append found it
    rejected_by,  \* history: the check whose block ended the run, "" for none
    reached_done, \* history: validators and fixers all passed without a block
    pwsh_in,      \* history: the commands fix_pwsh_quoting was given
    io_failed,    \* history: an operation on the log raised OSError in this run
    q,            \* a call of _is_enabled on its own: arguments and result
    peer          \* a second invocation that is in _log_entry at the same time

vars ==
    <<pc, request, config, in_wsl, command, original, fixes, vidx,
      fidx, stdout, stderr, exit_code, log, entry, after_log, pending_msg,
      lines, clock, evaluated, appended, log_before, rejected_by, reached_done,
      pwsh_in, io_failed, q, peer>>

NoMsg == [id |-> "", args |-> <<>>]

\* What the interpreter prints for an exception nobody catches (exit status 1).
Traceback == [id |-> "Traceback (most recent call last)", args |-> <<>>]

NoEntry ==
    [time |-> 0, type |-> "", fix |-> <<>>, original |-> <<>>,
     has_proposed |-> FALSE, proposed |-> <<>>, has_fixes |-> FALSE,
     fixes |-> <<>>]

\* log_fixup(original, proposed, fix_type): the entry _log_entry builds.  The
\* field fix holds the parts that "," joins; cwd is the same in every entry.
log_fixup(t, orig, f) ==
    [time |-> t, type |-> "suggest", fix |-> <<f.fix>>, original |-> orig,
     has_proposed |-> f.has_proposed, proposed |-> f.proposed,
     has_fixes |-> FALSE, fixes |-> <<>>]

\* log_autofix(original, fixed, fixes)
log_autofix(t, orig, fixed, fx) ==
    [time |-> t, type |-> "autofix", fix |-> fx, original |-> orig,
     has_proposed |-> TRUE, proposed |-> fixed, has_fixes |-> TRUE,
     fixes |-> fx]

\* The payload json.dump writes to standard output.
Payload(cmd, fx) ==
    [hookEventName |-> "PreToolUse", command |-> cmd, additionalContext |-> fx]

\* lines[:TRIM_TO_LINES]: the first lines instead of the last
LastLines_first(ls, n) == IF Len(ls) <= n THEN ls ELSE SubSeq(ls, 1, n)

\* lines[-TRIM_TO_LINES:]
LastLines(ls, n) == IF Len(ls) <= n THEN ls ELSE SubSeq(ls, Len(ls) - n + 1, Len(ls))

\* The message fix_pwsh_quoting returns when it cannot rewrite.
PwshErr ==
    [id |-> "pwsh -Command with $ and embedded single quotes", args |-> <<>>]

\* The Finding of the validator main calls under a check id.
Finding(check_id, cmd, inwsl, installed) ==
    CASE check_id = "git_commit_attribution" -> check_git_commit_attribution(cmd)
      [] check_id = "git_commit_generated" -> check_git_commit_generated(cmd)
      [] check_id = "git_commit_emoji" -> check_git_commit_emoji(cmd)
      [] check_id = "cmd_workaround" -> check_cmd_workaround(cmd)
      [] check_id = "powershell_legacy" -> check_powershell_file_for_oneliner(cmd)
      [] check_id = "wsl_invocation" -> check_wsl_invocation(cmd, installed)
      [] check_id = "wsl_paths" -> check_wsl_paths(cmd, inwsl)
      [] check_id = "dir_in_pwsh" -> check_dir_in_pwsh(cmd)
      [] check_id = "reserved_names" -> check_reserved_names(cmd)
      [] check_id = "doubled_flags" -> check_doubled_flags(cmd)
      [] check_id = "backslash_paths" -> check_backslash_paths(cmd)
      [] check_id = "unc_paths" -> check_unc_paths(cmd)

\* What the fixer main calls under a check id returns.
Fixed(check_id, cmd) ==
    CASE check_id = "nul_redirect" -> [cmd |-> fix_nul_redirect(cmd), err |-> FALSE]
      [] check_id = "msys2_drive_paths" ->
            [cmd |-> fix_msys2_drive_paths(cmd), err |-> FALSE]
      [] check_id = "python3" -> [cmd |-> fix_python3(cmd), err |-> FALSE]
      [] check_id = "dir_windows_flags" ->
            [cmd |-> fix_dir_windows_flags(cmd), err |-> FALSE]
      [] check_id = "pwsh_quoting" -> fix_pwsh_quoting(cmd)

\* The text main appends to fixes when a fixer changed the command.
FixText(check_id) ==
    CASE check_id = "nul_redirect" -> "replaced > nul with > /dev/null"
      [] check_id = "msys2_drive_paths" ->
            "converted MSYS2 drive paths to Windows style"
      [] check_id = "python3" -> "replaced python3 with python"
      [] check_id = "dir_windows_flags" ->
            "converted Windows dir /flags to ls equivalent"
      [] check_id = "pwsh_quoting" ->
            "swapped pwsh -Command quotes from double to single"

(***************************************************************************)
(* The inputs of the model: commands, requests, configurations, logs       *)
(***************************************************************************)
\* ls   (no check matches)
c_ls ==
    <<"l","s">>

\* git commit -m 'Co-Authored-By: x generated with U+2728'   (the three commit checks)
c_git ==
    <<"g","i","t"," ","c","o","m","m","i","t"," ","-","m"," ","'","C","o","-","A","u","t","h","o","r","e","d","-","B","y",":"," ","x"," ","g","e","n","e","r","a","t","e","d"," ","w","i","t","h"," ","U+2728","'">>

\* cmd /c dir C:\t   (cmd_workaround, backslash_paths)
c_cmd ==
    <<"c","m","d"," ","/","c"," ","d","i","r"," ","C",":","\\","t">>

\* powershell -c x   (powershell_legacy)
c_powershell ==
    <<"p","o","w","e","r","s","h","e","l","l"," ","-","c"," ","x">>

\* wsl ls /mnt/c/x   (wsl_invocation, wsl_paths)
c_wsl ==
    <<"w","s","l"," ","l","s"," ","/","m","n","t","/","c","/","x">>

\* ls /mnt/c/x C:\t   (wsl_paths, backslash_paths)
c_mnt ==
    <<"l","s"," ","/","m","n","t","/","c","/","x"," ","C",":","\\","t">>

\* pwsh -c "dir /b"   (dir_in_pwsh)
c_pwsh_dir ==
    <<"p","w","s","h"," ","-","c"," ","\"","d","i","r"," ","/","b","\"">>

\* echo //fi > con   (doubled_flags, reserved_names by a redirect)
c_con ==
    <<"e","c","h","o"," ","/","/","f","i"," ",">"," ","c","o","n">>

\* touch con.txt   (reserved_names by a file argument)
c_touch ==
    <<"t","o","u","c","h"," ","c","o","n",".","t","x","t">>

\* tasklist //fi x   (doubled_flags)
c_doubled ==
    <<"t","a","s","k","l","i","s","t"," ","/","/","f","i"," ","x">>

\* dir /b /s C:\temp   (backslash_paths, dir_windows_flags)
c_scenario1 ==
    <<"d","i","r"," ","/","b"," ","/","s"," ","C",":","\\","t","e","m","p">>

\* ls \\srv\sh C:\t   (unc_paths, backslash_paths)
c_unc ==
    <<"l","s"," ","\\","\\","s","r","v","\\","s","h"," ","C",":","\\","t">>

\* ls 'C:\x'   (a backslash path in single quotes)
c_quoted ==
    <<"l","s"," ","'","C",":","\\","x","'">>

\* echo hi > nul   (nul_redirect)
c_nul ==
    <<"e","c","h","o"," ","h","i"," ",">"," ","n","u","l">>

\* python3 /c/x.py >nul   (nul_redirect, msys2_drive_paths, python3)
c_three ==
    <<"p","y","t","h","o","n","3"," ","/","c","/","x",".","p","y"," ",">","n","u","l">>

\* dir /b /s   (dir_windows_flags)
c_dir ==
    <<"d","i","r"," ","/","b"," ","/","s">>

\* dir /b /z   (dir with a flag outside _DIR_FLAG_MAP)
c_dir_unknown ==
    <<"d","i","r"," ","/","b"," ","/","z">>

\* pwsh -c "$a"   (pwsh_quoting rewrites)
c_pwsh ==
    <<"p","w","s","h"," ","-","c"," ","\"","$","a","\"">>

\* pwsh -c "$a'"   (pwsh_quoting cannot rewrite)
c_pwsh_err ==
    <<"p","w","s","h"," ","-","c"," ","\"","$","a","'","\"">>

\* pwsh -c "$a'" >nul   (nul_redirect, then pwsh_quoting cannot rewrite)
c_pwsh_err_nul ==
    <<"p","w","s","h"," ","-","c"," ","\"","$","a","'","\""," ",">","n","u","l">>

Commands ==
    {c_ls, c_git, c_cmd, c_powershell, c_wsl, c_mnt, c_pwsh_dir, c_con, c_touch,
     c_doubled, c_scenario1, c_unc, c_quoted, c_nul, c_three, c_dir,
     c_dir_unknown, c_pwsh, c_pwsh_err, c_pwsh_err_nul}

\* A request: json says whether standard input parses and whether the document
\* is an object; tool_input and command_kind say the same of the two fields
\* main reads (a non_string command is a value such as 5, true in a test).
Req(json, tool_input, command_kind, cmd) ==
    [json |-> json, tool_input |-> tool_input, command_kind |-> command_kind,
     command |-> cmd]

CommandRequests == {Req("object", "object", "string", c) : c \in Commands}

\* not JSON; an object without tool_input; a tool_input without command; an
\* empty command
InputErrorRequests ==
    {Req("invalid", "absent", "absent", <<>>),
     Req("object", "absent", "absent", <<>>),
     Req("object", "object", "absent", <<>>),
     Req("object", "object", "empty", <<>>)}

\* JSON that is no object ([]), a tool_input that is none (null), a command
\* that is no string (5)
IllTypedRequests ==
    {Req("non_object", "absent", "absent", <<>>),
     Req("object", "non_object", "absent", <<>>),
     Req("object", "object", "non_string", <<>>)}

Requests == CommandRequests \cup InputErrorRequests \cup IllTypedRequests

CheckIds == Tier2Set \cup Tier1Set

\* config.json absent or empty: every check at its default
DefaultConfig == [c \in {} |-> TRUE]

\* One check switched away from its default
Flip(id) == [c \in {id} |-> ~_DEFAULTS[id]]

Configs ==
    {DefaultConfig}
    \cup {Flip(id) : id \in CheckIds}
    \cup {[c \in Tier2Set |-> FALSE],
          [c \in CheckIds |-> FALSE],
          [c \in CheckIds |-> TRUE],
          [c \in {"git_commit_attribution", "git_commit_generated",
                  "git_commit_emoji"} |-> TRUE],
          [c \in {"some_other_check"} |-> FALSE]}

\* A line an earlier run left in the log.
OldLine(k) ==
    [time |-> 0 - k, type |-> "suggest", fix |-> <<"wsl_path">>,
     original |-> <<"l","s">>, has_proposed |-> TRUE, proposed |-> <<"l","s">>,
     has_fixes |-> FALSE, fixes |-> <<>>]

\* A log of n lines of earlier runs, the oldest first.
OldLog(n) == [i \in 1..n |-> OldLine(n - i)]

InitLogs == {OldLog(0), OldLog(MAX_LOG_LINES)}

(***************************************************************************)
(* Init and the steps of one run                                           *)
(***************************************************************************)
\* The state of a process that has not read its input yet.
Fresh ==
    /\ pc = "start"
    /\ command = <<>>
    /\ original = <<>>
    /\ fixes = <<>>
    /\ vidx = 1
    /\ fidx = 1
    /\ stdout = <<>>
    /\ stderr = <<>>
    /\ exit_code = -1
    /\ entry = NoEntry
    /\ after_log = ""
    /\ pending_msg = NoMsg
    /\ lines = <<>>
    /\ evaluated = <<>>
    /\ appended = <<>>
    /\ rejected_by = ""
    /\ reached_done = FALSE
    /\ pwsh_in = <<>>
    /\ io_failed = FALSE

NoCall == [fn |-> "", id |-> "", cfg |-> DefaultConfig, default |-> None,
           result |-> FALSE]

\* No second invocation runs.
NoPeer == [pc |-> "none", entry |-> NoEntry, lines |-> <<>>, log0 |-> 0]

Init ==
    /\ Fresh
    /\ request \in Requests
    /\ config \in Configs
    /\ in_wsl \in BOOLEAN
    /\ log \in InitLogs
    /\ log_before = log
    /\ clock = 1
    /\ q = NoCall
    /\ peer = NoPeer

env == <<request, config, in_wsl, clock, q, peer>>

mainvars == <<command, original, fixes, vidx, fidx>>

logvars == <<log, entry, after_log, pending_msg, lines, appended, log_before, io_failed>>

\* sys.exit(code)
Exit(code) == pc' = "exit" /\ exit_code' = code

\* An exception nobody catches: the traceback on stderr, exit status 1.
Raise == stderr' = Append(stderr, Traceback) /\ Exit(1)

\* block(message)
block(message) == stderr' = Append(stderr, message) /\ Exit(2)

\* json.load raises JSONDecodeError or ValueError: sys.exit(0)  (573-576)
ParseFails ==
    /\ pc = "start"
    /\ request.json = "invalid"
    /\ Exit(0)
    /\ UNCHANGED <<env, mainvars, logvars, stdout, stderr, evaluated,
                   rejected_by, reached_done, pwsh_in>>

\* input_data.get or tool_input.get on a value that is no dict  (578-579)
NotADict ==
    /\ pc = "start"
    /\ \/ request.json = "non_object"
       \/ request.json = "object" /\ request.tool_input = "non_object"
    /\ Raise
    /\ UNCHANGED <<env, mainvars, logvars, stdout, evaluated, rejected_by,
                   reached_done, pwsh_in>>

\* if not command: sys.exit(0)  (578-581)
NoCommand ==
    /\ pc = "start"
    /\ request.json = "object"
    /\ \/ request.tool_input = "absent"
       \/ request.tool_input = "object" /\ request.command_kind \in {"absent", "empty"}
    /\ Exit(0)
    /\ UNCHANGED <<env, mainvars, logvars, stdout, stderr, evaluated,
                   rejected_by, reached_done, pwsh_in>>

\* original = command; fixes = []  (583-584)
HaveCommand ==
    /\ pc = "start"
    /\ request.json = "object"
    /\ request.tool_input = "object"
    /\ request.command_kind \in {"string", "non_string"}
    /\ command' = request.command
    /\ original' = request.command
    /\ fixes' = <<>>
    /\ vidx' = 1
    /\ pc' = "tier2"
    /\ UNCHANGED <<env, logvars, fidx, stdout, stderr, exit_code, evaluated,
                   rejected_by, reached_done, pwsh_in>>

\* main goes on to the next validator, or to the fixers after the last.
NextTier2 ==
    /\ vidx' = vidx + 1
    /\ pc' = IF vidx = Len(Tier2) THEN "tier1" ELSE "tier2"

\* if _is_enabled(...) is false: the validator is not called  (587-610)
SkipValidator ==
    /\ pc = "tier2"
    /\ ~Enabled(config, Tier2[vidx])
    /\ NextTier2
    /\ UNCHANGED <<env, logvars, command, original, fixes, fidx, stdout, stderr,
                   exit_code, evaluated, rejected_by, reached_done, pwsh_in>>

\* A validator called with a command that is no string: re.search and
\* cmd.lstrip raise TypeError or AttributeError.
ValidatorRaises ==
    /\ pc = "tier2"
    /\ Enabled(config, Tier2[vidx])
    /\ request.command_kind # "string"
    /\ evaluated' = Append(evaluated, Tier2[vidx])
    /\ Raise
    /\ UNCHANGED <<env, mainvars, logvars, stdout, rejected_by, reached_done,
                   pwsh_in>>

\* The validator returns: no match.
ValidatorPasses ==
    /\ pc = "tier2"
    /\ Enabled(config, Tier2[vidx])
    /\ request.command_kind = "string"
    /\ \E installed \in BOOLEAN :
          ~Finding(Tier2[vidx], command, in_wsl, installed).match
    /\ evaluated' = Append(evaluated, Tier2[vidx])
    /\ NextTier2
    /\ UNCHANGED <<env, logvars, command, original, fixes, fidx, stdout, stderr,
                   exit_code, rejected_by, reached_done, pwsh_in>>

\* The validator matches and calls block at once.
ValidatorBlocks ==
    /\ pc = "tier2"
    /\ Enabled(config, Tier2[vidx])
    /\ request.command_kind = "string"
    /\ \E installed \in BOOLEAN :
          LET f == Finding(Tier2[vidx], command, in_wsl, installed)
          IN  /\ f.match
              /\ ~f.logged
              /\ block(f.msg)
    /\ evaluated' = Append(evaluated, Tier2[vidx])
    /\ rejected_by' = Tier2[vidx]
    /\ UNCHANGED <<env, mainvars, logvars, stdout, reached_done, pwsh_in>>

\* The validator matches and calls log_fixup, then block.
ValidatorLogs ==
    /\ pc = "tier2"
    /\ Enabled(config, Tier2[vidx])
    /\ request.command_kind = "string"
    /\ \E installed \in BOOLEAN :
          LET f == Finding(Tier2[vidx], command, in_wsl, installed)
          IN  /\ f.match
              /\ f.logged
              /\ entry' = log_fixup(clock, command, f)
              /\ pending_msg' = f.msg
    /\ after_log' = "block"
    /\ pc' = "log_mkdir"
    /\ evaluated' = Append(evaluated, Tier2[vidx])
    /\ UNCHANGED <<env, mainvars, log, lines, appended, log_before, io_failed,
                   stdout, stderr, exit_code, rejected_by, reached_done, pwsh_in>>

\* log_fixup has returned: the validator's block
BlockAfterLog ==
    /\ pc = "block"
    /\ block(pending_msg)
    /\ rejected_by' = Tier2[vidx]
    /\ UNCHANGED <<env, mainvars, logvars, stdout, evaluated, reached_done,
                   pwsh_in>>

\* main goes on to the next fixer, or to the result after the last.
NextTier1 ==
    /\ fidx' = fidx + 1
    /\ pc' = IF fidx = Len(Tier1) THEN "emit" ELSE "tier1"
    /\ reached_done' = (fidx = Len(Tier1))

\* if _is_enabled(...) is false: the fixer is not called  (614-637)
SkipFixer ==
    /\ pc = "tier1"
    /\ ~Enabled(config, Tier1[fidx])
    /\ NextTier1
    /\ UNCHANGED <<env, logvars, command, original, fixes, vidx, stdout, stderr,
                   exit_code, evaluated, rejected_by, pwsh_in>>

\* A fixer called with a command that is no string: re.sub raises TypeError.
FixerRaises ==
    /\ pc = "tier1"
    /\ Enabled(config, Tier1[fidx])
    /\ request.command_kind # "string"
    /\ evaluated' = Append(evaluated, Tier1[fidx])
    /\ Raise
    /\ UNCHANGED <<env, mainvars, logvars, stdout, rejected_by, reached_done,
                   pwsh_in>>

\* command = fix(command); fixes.append(...) when it changed.  The first fixer
\* compares with original, the others with prev.
FixerApplies ==
    /\ pc = "tier1"
    /\ Enabled(config, Tier1[fidx])
    /\ request.command_kind = "string"
    /\ LET r == Fixed(Tier1[fidx], command)
           prev == IF fidx = 1 THEN original ELSE command
       IN  /\ ~r.err
           /\ command' = r.cmd
           /\ fixes' = IF r.cmd # prev
                       THEN Append(fixes, FixText(Tier1[fidx])) ELSE fixes
    /\ evaluated' = Append(evaluated, Tier1[fidx])
    /\ pwsh_in' = IF Tier1[fidx] = "pwsh_quoting"
                  THEN Append(pwsh_in, command) ELSE pwsh_in
    /\ NextTier1
    /\ UNCHANGED <<env, logvars, original, vidx, stdout, stderr, exit_code,
                   rejected_by>>

\* if pwsh_err: block(pwsh_err)  (639-641)
FixerBlocks ==
    /\ pc = "tier1"
    /\ Enabled(config, Tier1[fidx])
    /\ request.command_kind = "string"
    /\ Fixed(Tier1[fidx], command).err
    /\ block(PwshErr)
    /\ evaluated' = Append(evaluated, Tier1[fidx])
    /\ pwsh_in' = Append(pwsh_in, command)
    /\ rejected_by' = Tier1[fidx]
    /\ UNCHANGED <<env, mainvars, logvars, stdout, reached_done>>

\* if fixes is empty: sys.exit(0) with nothing written  (646, 660)
EmitNothing ==
    /\ pc = "emit"
    /\ fixes = <<>>
    /\ Exit(0)
    /\ UNCHANGED <<env, mainvars, logvars, stdout, stderr, evaluated,
                   rejected_by, reached_done, pwsh_in>>

\* if fixes: log_autofix(original, command, fixes)  (646-647)
EmitLogs ==
    /\ pc = "emit"
    /\ fixes # <<>>
    /\ entry' = log_autofix(clock, original, command, fixes)
    /\ after_log' = "dump"
    /\ pc' = "log_mkdir"
    /\ UNCHANGED <<env, mainvars, log, pending_msg, lines, appended, log_before,
                   io_failed, stdout, stderr, exit_code, evaluated, rejected_by,
                   reached_done, pwsh_in>>

\* json.dump(output, sys.stdout); sys.exit(0)  (648-660)
Dump ==
    /\ pc = "dump"
    /\ stdout' = Append(stdout, Payload(command, fixes))
    /\ Exit(0)
    /\ UNCHANGED <<env, mainvars, logvars, stderr, evaluated, rejected_by,
                   reached_done, pwsh_in>>

(***************************************************************************)
(* _log_entry and _trim_log_if_needed, one file operation a step           *)
(***************************************************************************)
\* An OSError nobody catches ends the run.
RaiseOSError ==
    /\ Raise
    /\ io_failed' = TRUE

\* FIXUPS_LOG.parent.mkdir(parents=True, exist_ok=True)  (111)
Mkdir ==
    /\ pc = "log_mkdir"
    /\ pc' = "log_append"
    /\ UNCHANGED <<env, mainvars, logvars, stdout, stderr, exit_code, evaluated,
                   rejected_by, reached_done, pwsh_in>>

MkdirFails ==
    /\ pc = "log_mkdir"
    /\ RaiseOSError
    /\ UNCHANGED <<env, mainvars, log, entry, after_log, pending_msg, lines,
                   appended, log_before, stdout, evaluated, rejected_by,
                   reached_done, pwsh_in>>

\* with open(FIXUPS_LOG, "a") as f: f.write(json.dumps(entry) + "\n")  (124-125)
AppendLine ==
    /\ pc = "log_append"
    /\ log' = Append(log, entry)
    /\ appended' = Append(appended, entry)
    /\ log_before' = log
    /\ pc' = "trim_read"
    /\ UNCHANGED <<env, mainvars, entry, after_log, pending_msg, lines,
                   io_failed, stdout, stderr, exit_code, evaluated, rejected_by,
                   reached_done, pwsh_in>>

AppendFails ==
    /\ pc = "log_append"
    /\ RaiseOSError
    /\ UNCHANGED <<env, mainvars, log, entry, after_log, pending_msg, lines,
                   appended, log_before, stdout, evaluated, rejected_by,
                   reached_done, pwsh_in>>

\* lines = FIXUPS_LOG.read_text().splitlines(); if len(lines) > MAX_LOG_LINES
\* the file is rewritten, otherwise _log_entry returns  (99-102)
TrimRead ==
    /\ pc = "trim_read"
    /\ lines' = log
    /\ pc' = IF Len(log) > MAX_LOG_LINES THEN "trim_open" ELSE after_log
    /\ UNCHANGED <<env, mainvars, log, entry, after_log, pending_msg, appended,
                   log_before, io_failed, stdout, stderr, exit_code, evaluated,
                   rejected_by, reached_done, pwsh_in>>

\* except OSError: return  (100-101)
TrimReadFails ==
    /\ pc = "trim_read"
    /\ io_failed' = TRUE
    /\ pc' = after_log
    /\ UNCHANGED <<env, mainvars, log, entry, after_log, pending_msg, lines,
                   appended, log_before, stdout, stderr, exit_code, evaluated,
                   rejected_by, reached_done, pwsh_in>>

\* FIXUPS_LOG.write_text opens the file for writing, which empties it  (103)
TrimOpen ==
    /\ pc = "trim_open"
    /\ log' = <<>>
    /\ pc' = "trim_write"
    /\ UNCHANGED <<env, mainvars, entry, after_log, pending_msg, lines, appended,
                   log_before, io_failed, stdout, stderr, exit_code, evaluated,
                   rejected_by, reached_done, pwsh_in>>

TrimOpenFails ==
    /\ pc = "trim_open"
    /\ RaiseOSError
    /\ UNCHANGED <<env, mainvars, log, entry, after_log, pending_msg, lines,
                   appended, log_before, stdout, evaluated, rejected_by,
                   reached_done, pwsh_in>>

\* ... and writes "\n".join(lines[-TRIM_TO_LINES:]) + "\n"  (103-106)
TrimWrite ==
    /\ pc = "trim_write"
    /\ log' = LastLines(lines, TRIM_TO_LINES)
    /\ pc' = after_log
    /\ UNCHANGED <<env, mainvars, entry, after_log, pending_msg, lines, appended,
                   log_before, io_failed, stdout, stderr, exit_code, evaluated,
                   rejected_by, reached_done, pwsh_in>>

TrimWriteFails ==
    /\ pc = "trim_write"
    /\ RaiseOSError
    /\ UNCHANGED <<env, mainvars, log, entry, after_log, pending_msg, lines,
                   appended, log_before, stdout, evaluated, rejected_by,
                   reached_done, pwsh_in>>

(***************************************************************************)
(* The specifications                                                      *)
(***************************************************************************)
Step ==
    \/ ParseFails
    \/ NotADict
    \/ NoCommand
    \/ HaveCommand
    \/ SkipValidator
    \/ ValidatorRaises
    \/ ValidatorPasses
    \/ ValidatorBlocks
    \/ ValidatorLogs
    \/ BlockAfterLog
    \/ SkipFixer
    \/ FixerRaises
    \/ FixerApplies
    \/ FixerBlocks
    \/ EmitNothing
    \/ EmitLogs
    \/ Dump
    \/ Mkdir
    \/ MkdirFails
    \/ AppendLine
    \/ AppendFails
    \/ TrimRead
    \/ TrimReadFails
    \/ TrimOpen
    \/ TrimOpenFails
    \/ TrimWrite
    \/ TrimWriteFails

Next == Step

\* One run of the hook, on any request, configuration and log.
Spec == Init /\ [][Next]_vars

(***************************************************************************)
(* Runs of the hook one after another on the same log                      *)
(***************************************************************************)
\* The requests of the sequential runs: one for every way a run can go.
SeqRequests ==
    {Req("object", "object", "string", c) :
        c \in {c_ls, c_cmd, c_mnt, c_nul, c_pwsh_err}}
    \cup {Req("invalid", "absent", "absent", <<>>),
          Req("non_object", "absent", "absent", <<>>),
          Req("object", "object", "empty", <<>>),
          Req("object", "object", "non_string", <<>>)}

SeqConfigs == {DefaultConfig, Flip("python3"), [c \in Tier2Set |-> FALSE]}

\* Logs at the ceiling and just under it.
SeqLogs == {OldLog(MAX_LOG_LINES - 2), OldLog(MAX_LOG_LINES - 1), OldLog(MAX_LOG_LINES)}

InitSeq ==
    /\ Fresh
    /\ request \in SeqRequests
    /\ config \in SeqConfigs
    /\ in_wsl = FALSE
    /\ log \in SeqLogs
    /\ log_before = log
    /\ clock = 1
    /\ q = NoCall
    /\ peer = NoPeer

\* The process has ended and the next command starts a new one: a new request,
\* a later time, the same configuration file and the same log file.
NextInvocation ==
    /\ pc = "exit"
    /\ clock < MaxInvocations
    /\ pc' = "start"
    /\ command' = <<>>
    /\ original' = <<>>
    /\ fixes' = <<>>
    /\ vidx' = 1
    /\ fidx' = 1
    /\ stdout' = <<>>
    /\ stderr' = <<>>
    /\ exit_code' = -1
    /\ entry' = NoEntry
    /\ after_log' = ""
    /\ pending_msg' = NoMsg
    /\ lines' = <<>>
    /\ evaluated' = <<>>
    /\ appended' = <<>>
    /\ rejected_by' = ""
    /\ reached_done' = FALSE
    /\ pwsh_in' = <<>>
    /\ io_failed' = FALSE
    /\ request' \in SeqRequests
    /\ clock' = clock + 1
    /\ log_before' = log
    /\ UNCHANGED <<config, in_wsl, log, q, peer>>

NextSeq ==
    \/ Step
    \/ NextInvocation

\* Up to MaxInvocations runs, one after another (no concurrent writers).
SpecSeq == InitSeq /\ [][NextSeq]_vars

(***************************************************************************)
(* _is_enabled called on its own, as a library function                    *)
(***************************************************************************)
\* The ids of the calls: every check of _DEFAULTS and two ids it does not hold.
CallIds == CheckIds \cup {"some_other_check", "file_content_unicode"}

CallDefaults == {None, Some(TRUE), Some(FALSE)}

\* A process that has loaded the module and runs no command.
InitCfg ==
    /\ pc = "lib"
    /\ command = <<>>
    /\ original = <<>>
    /\ fixes = <<>>
    /\ vidx = 1
    /\ fidx = 1
    /\ stdout = <<>>
    /\ stderr = <<>>
    /\ exit_code = -1
    /\ entry = NoEntry
    /\ after_log = ""
    /\ pending_msg = NoMsg
    /\ lines = <<>>
    /\ evaluated = <<>>
    /\ appended = <<>>
    /\ rejected_by = ""
    /\ reached_done = FALSE
    /\ pwsh_in = <<>>
    /\ io_failed = FALSE
    /\ request = Req("object", "absent", "absent", <<>>)
    /\ config = DefaultConfig
    /\ in_wsl = FALSE
    /\ log = OldLog(0)
    /\ log_before = log
    /\ clock = 1
    /\ q = NoCall
    /\ peer = NoPeer

\* _is_enabled(check_id, default) of fix_bash_command.py under the overrides
\* cfg that _load_config returned.
BashIsEnabled ==
    /\ pc = "lib"
    /\ \E id \in CallIds, cfg \in Configs, d \in CallDefaults :
          q' = [fn |-> "bash", id |-> id, cfg |-> cfg, default |-> d,
                result |-> _is_enabled(cfg, id, d)]
    /\ pc' = "returned"
    /\ UNCHANGED <<request, config, in_wsl, clock, peer, mainvars, logvars, stdout,
                   stderr, exit_code, evaluated, rejected_by, reached_done,
                   pwsh_in>>

\* _is_enabled(check_id, default) of check_file_content.py
ScannerIsEnabled ==
    /\ pc = "lib"
    /\ \E id \in CallIds, cfg \in Configs, d \in CallDefaults :
          q' = [fn |-> "scanner", id |-> id, cfg |-> cfg, default |-> d,
                result |-> scanner_is_enabled(cfg, id, d)]
    /\ pc' = "returned"
    /\ UNCHANGED <<request, config, in_wsl, clock, peer, mainvars, logvars, stdout,
                   stderr, exit_code, evaluated, rejected_by, reached_done,
                   pwsh_in>>

NextCfg ==
    \/ BashIsEnabled
    \/ ScannerIsEnabled

\* Calls of the two _is_enabled functions, on any id, overrides and default.
SpecCfg == InitCfg /\ [][NextCfg]_vars

(***************************************************************************)
(* The properties                                                          *)
(***************************************************************************)
Range(s) == {s[i] : i \in 1..Len(s)}

\* The run has a command to check: standard input held an object whose
\* tool_input holds a command string that is not empty.
IsCommandRun ==
    /\ request.json = "object"
    /\ request.tool_input = "object"
    /\ request.command_kind = "string"

\* The flag of a check under the configuration of the run.
OwnFlag(check_id) == _is_enabled(config, check_id, MainDefault(check_id))

\* The positions in Tier2 of the enabled validators that match the command.
MatchSet ==
    {i \in 1..Len(Tier2) :
        OwnFlag(Tier2[i]) /\ Finding(Tier2[i], request.command, in_wsl, TRUE).match}

EarliestMatch == CHOOSE i \in MatchSet : \A k \in MatchSet : i <= k

\* The enabled validators up to position n, in main's order.
EnabledUpTo(n) == SelectSeq(SubSeq(Tier2, 1, n), OwnFlag)

AutofixEntries == {i \in 1..Len(appended) : appended[i].type = "autofix"}

SuggestEntries == {i \in 1..Len(appended) : appended[i].type = "suggest"}

\* C1: a finished run on a command that two or more enabled validators match
\* was rejected (exit 2) with the message of the earliest of them in main's
\* order, has evaluated the enabled validators up to that one in that order and
\* none after it, has run no fixer, has written nothing to standard output and
\* has logged no autofix entry.
C1_EarliestMatchRejects ==
    (pc = "exit" /\ IsCommandRun /\ Cardinality(MatchSet) >= 2)
    => /\ exit_code = 2
       /\ \E installed \in BOOLEAN :
             stderr = <<Finding(Tier2[EarliestMatch], request.command, in_wsl,
                                installed).msg>>
       /\ evaluated = EnabledUpTo(EarliestMatch)
       /\ stdout = <<>>
       /\ AutofixEntries = {}

\* C2: a run that a validator rejected has appended a "suggest" entry carrying
\* the original command.
C2_RejectionHasSuggestEntry ==
    (pc = "exit" /\ rejected_by \in Tier2Set)
    => \E i \in SuggestEntries : appended[i].original = request.command

\* C3: a run in which a file operation of the audit log failed ends as the run
\* whose log write succeeds: the validator's rejection (exit 2, its message on
\* stderr, nothing on stdout) after log_fixup, the payload (exit 0, nothing on
\* stderr) after log_autofix.
C3_LogFailureKeepsOutcome ==
    (pc = "exit" /\ io_failed)
    => /\ after_log = "block"
          => exit_code = 2 /\ stderr = <<pending_msg>> /\ stdout = <<>>
       /\ after_log = "dump"
          => exit_code = 0 /\ stderr = <<>> /\ stdout = <<Payload(command, fixes)>>

\* C4: a finished run is allow-unchanged (exit 0, nothing on stdout),
\* allow-rewritten (exit 0, one payload on stdout) or deny (exit 2, a message
\* on stderr, nothing on stdout).
C4_ThreeOutcomes ==
    pc = "exit"
    => \/ exit_code = 0 /\ stdout = <<>>
       \/ exit_code = 0 /\ Len(stdout) = 1
       \/ exit_code = 2 /\ Len(stderr) = 1 /\ stderr[1] # Traceback /\ stdout = <<>>

\* C5: a run that reached DONE and has finished has, when the final command
\* differs from the original, written one payload with the final command and
\* appended one autofix entry with the fixes, the original and the final
\* command; when the two are equal it has written nothing and appended nothing.
C5_DoneEmitsAndLogsOnce ==
    (pc = "exit" /\ reached_done)
    => IF command # original
       THEN /\ stdout = <<Payload(command, fixes)>>
            /\ appended = <<log_autofix(clock, original, command, fixes)>>
            /\ fixes # <<>>
       ELSE /\ stdout = <<>>
            /\ appended = <<>>

\* The command holds pwsh -Command "..." whose content has a $ and a single
\* quote.
UnsafePwsh(cmd) ==
    /\ FirstPos(cmd, PwshQuoteIs) # 0
    /\ "$" \in Range(PwshContent(cmd))
    /\ SQ \in Range(PwshContent(cmd))

\* C6: once pwsh_quoting has met content with a $ and a single quote the run
\* has ended with exit 2 and the fixer's message alone on stderr, nothing on
\* stdout and no audit entry appended, whatever the fixes list holds.
C6_UnsafePwshDenied ==
    (pwsh_in # <<>> /\ UnsafePwsh(pwsh_in[1]))
    => /\ pc = "exit"
       /\ exit_code = 2
       /\ stderr = <<PwshErr>>
       /\ stdout = <<>>
       /\ appended = <<>>
       /\ entry = NoEntry

\* A run that pwsh_quoting rejected after an earlier fixer had changed the
\* command.
C6_Witness ==
    /\ pc = "exit"
    /\ rejected_by = "pwsh_quoting"
    /\ UnsafePwsh(pwsh_in[1])
    /\ fixes # <<>>
    /\ command # original

\* The request is one of the input errors: not JSON, JSON without tool_input
\* or without a command, or with an empty command.
IsInputError ==
    \/ request.json # "object"
    \/ request.tool_input # "object"
    \/ request.command_kind \in {"absent", "empty"}

\* C7: a finished run on an input error has exit status 0, nothing on stdout,
\* nothing on stderr and no audit entry appended.
C7_InputErrorsSilent ==
    (pc = "exit" /\ IsInputError)
    => /\ exit_code = 0
       /\ stdout = <<>>
       /\ stderr = <<>>
       /\ appended = <<>>

\* The checks main has gone past, run or skipped.
PassedChecks ==
    {Tier2[i] : i \in 1..(vidx - 1)} \cup {Tier1[i] : i \in 1..(fidx - 1)}

\* C8: a check whose own flag is false is never called, never rejects and, a
\* fixer, never changes the command; an audit entry is written only by a check
\* whose flag is true; and every check main has gone past was called exactly
\* when its own flag is true, whatever the other flags are.
C8_OwnFlagGates ==
    /\ \A c \in CheckIds :
          ~OwnFlag(c)
          => /\ c \notin Range(evaluated)
             /\ rejected_by # c
             /\ c \in Tier1Set => FixText(c) \notin Range(fixes)
    /\ entry.type = "suggest" => OwnFlag(Tier2[vidx])
    /\ \A c \in PassedChecks : c \in Range(evaluated) <=> OwnFlag(c)

\* A disabled validator that matches the command was skipped and a later,
\* enabled validator rejected; a disabled fixer was skipped and a later one
\* changed the command.
C8_Witness ==
    /\ pc = "exit"
    /\ \/ /\ rejected_by \in Tier2Set
          /\ \E i \in 1..(vidx - 1) :
                /\ ~OwnFlag(Tier2[i])
                /\ Finding(Tier2[i], request.command, in_wsl, TRUE).match
       \/ /\ stdout # <<>>
          /\ \E i \in 1..Len(Tier1) :
                /\ ~OwnFlag(Tier1[i])
                /\ Fixed(Tier1[i], original).cmd # original

\* The precedence the specification states for the call held in q.
StatedPrecedence ==
    IF q.id \in DOMAIN q.cfg THEN q.cfg[q.id]
    ELSE IF q.fn = "bash" /\ q.id \in DOMAIN _DEFAULTS THEN _DEFAULTS[q.id]
    ELSE IF q.default # None THEN TheValue(q.default)
    ELSE q.fn = "bash"

\* C9: a call of _is_enabled returns the override if the configuration holds
\* one, otherwise the built-in default of the check if it has one, otherwise
\* the caller's fallback if given, otherwise true (false in the scanner).
C9_Precedence ==
    pc = "returned" => q.result = StatedPrecedence

\* _log_entry has just returned to its caller.
LogReturned == pc \in {"block", "dump"}

\* The file holds the last TRIM_TO_LINES lines of what it held after the
\* append, in their order, the appended entry last.
Trimmed ==
    /\ Len(log) = TRIM_TO_LINES
    /\ log[Len(log)] = entry
    /\ \A i \in 1..(TRIM_TO_LINES - 1) :
          log[i] = log_before[Len(log_before) - TRIM_TO_LINES + 1 + i]

LogAfterAppendAndTrim ==
    IF Len(log_before) + 1 > MAX_LOG_LINES
    THEN LastLines(Append(log_before, entry), TRIM_TO_LINES)
    ELSE Append(log_before, entry)

\* C11: at every instant the file a reader of the log can read holds either
\* the complete log before the append or the complete log after the append
\* and its trim.
C11_ReaderSeesWholeLog ==
    \/ log = log_before
    \/ log = LogAfterAppendAndTrim

(***************************************************************************)
(* The checks and fixers called on their own, as functions of a command    *)
(***************************************************************************)
\* How many tokens a generated command is made of, at most.
MaxTokens == 3

\* "".join(parts)
Cat(ss) ==
    LET f[i \in 0..Len(ss)] == IF i = 0 THEN <<>> ELSE f[i - 1] \o ss[i]
    IN  f[Len(ss)]

\* The commands made of 1 to n tokens of a set.
Words(tokens, n) == UNION {{Cat(w) : w \in [1..k -> tokens]} : k \in 1..n}

\* Pieces of commands the fixers rewrite: dir and its flags, python3, a nul redirect, an MSYS2 path, two pwsh -c commands.
FixTokens ==
    {<<"d","i","r">>,
     <<" ","/","b">>,
     <<" ","/","s">>,
     <<"/","b","p","y","t","h","o","n","3">>,
     <<" ","p","y","t","h","o","n","3">>,
     <<" ",">","n","u","l">>,
     <<" ","/","c","/","x">>,
     <<" ","p","w","s","h"," ","-","c"," ","\"","$","a","\"">>,
     <<" ","p","w","s","h"," ","-","c"," ","\"","b","\"">>,
     <<" ","p","w","s","h"," ","-","c"," ","\"","$","c","'","\"">>}

FixInputs == Words(FixTokens, MaxTokens)

\* The five fixers in main's order, all enabled: the command they leave and
\* whether pwsh_quoting rejected.
FixAll(cmd) ==
    fix_pwsh_quoting(
        fix_dir_windows_flags(
            fix_python3(fix_msys2_drive_paths(fix_nul_redirect(cmd)))))

\* The call returns: q holds the function, its argument and what it returned.
Returns(call) ==
    /\ pc = "lib"
    /\ q' = call
    /\ pc' = "returned"
    /\ UNCHANGED <<request, config, in_wsl, clock, peer, mainvars, logvars, stdout,
                   stderr, exit_code, evaluated, rejected_by, reached_done,
                   pwsh_in>>

\* The fixers run on the command, and run again on what they left.
CallFixAllTwice ==
    LET once == FixAll(command)
    IN  Returns([fn |-> "fix_all", arg |-> command, result |-> once,
                 again |-> IF once.err THEN once ELSE FixAll(once.cmd)])

\* C12: the five fixers, all enabled, run on a command on which none of them
\* rejects and run again on the result, leave that result unchanged.
C12_FixAllIdempotent ==
    (pc = "returned" /\ q.fn = "fix_all" /\ ~q.result.err)
    => q.again = q.result

\* Pieces of commands for check_reserved_names: redirections to device names in several cases and with extensions, to nul and to /dev/null, file commands, and what may follow them.
ReservedTokens ==
    {<<"e","c","h","o"," ","a">>,
     <<" ",">"," ","c","o","n">>,
     <<" ","2",">","P","R","N",".","t","x","t">>,
     <<" ","&",">"," ","L","p","t","9",".","t","a","r",".","g","z">>,
     <<" ",">","n","u","l">>,
     <<" ",">"," ","/","d","e","v","/","n","u","l","l">>,
     <<" ","&","&"," ","l","s">>,
     <<"t","o","u","c","h"," ","c","o","n",".","t","x","t">>,
     <<"c","p"," ","a">>,
     <<" ","'","x","/","A","u","x","'">>,
     <<" ","c","o","m","1">>}

ReservedInputs == Words(ReservedTokens, MaxTokens)

\* check_reserved_names is called on the command.
CallCheckReservedNames ==
    Returns([fn |-> "check_reserved_names", arg |-> command,
             result |-> check_reserved_names(command)])

\* The reserved device names other than nul.
ReservedDevices == WINDOWS_RESERVED_NAMES \ {<<"n","u","l">>}

\* The word that starts at j, up to the next white space.
WordAt(s, j) == SubSeq(s, j, SkipUntil(s, j, Ws) - 1)

\* A file name is a reserved device name, bare or with an extension, in any
\* letter case, with or without a directory and quotes.
IsReservedFile(name) ==
    LowerStr(BeforeFirst(AfterLast(AfterLast(StripSet(name, {DQ, SQ}), "/"), BS),
                         "."))
        \in ReservedDevices

\* The command holds a redirection whose target is a reserved device name.
HasReservedRedirect(s) ==
    \E i \in 1..Len(s) :
        /\ s[i] = ">"
        /\ SkipWhile(s, i + 1, Ws) <= Len(s)
        /\ IsReservedFile(WordAt(s, SkipWhile(s, i + 1, Ws)))

\* The command passes a reserved device name as a file name to touch, mkdir,
\* cp, mv, cat > or tee.
HasReservedFileArg(s) ==
    \E i \in 1..Len(s) :
        /\ FileArgAt(s, i)
        /\ \E j \in (FileCmdEnd(s, i) + 1)..Len(s) :
              /\ s[j - 1] \in Ws
              /\ s[j] \notin Ws
              /\ \A k \in FileCmdEnd(s, i)..j : s[k] \notin {";", "&", "|", ">"}
              /\ IsReservedFile(WordAt(s, j))

\* Every redirection of the command has the target /dev/null, and the
\* command holds one and no file command.
RedirectsToDevNullOnly(s) ==
    /\ \E i \in 1..Len(s) : s[i] = ">"
    /\ \A i \in 1..Len(s) :
          s[i] = ">"
          => WordAt(s, SkipWhile(s, i + 1, Ws)) = <<"/","d","e","v","/","n","u","l","l">>
    /\ \A i \in 1..Len(s) : ~FileArgAt(s, i)

\* C13: check_reserved_names rejects every command with a redirection to a
\* reserved device name other than nul, wherever it stands, and every command
\* that passes such a name to a file command; it rejects no command whose
\* redirections all go to /dev/null.
C13_ReservedNamesRejected ==
    (pc = "returned" /\ q.fn = "check_reserved_names")
    => /\ (HasReservedRedirect(q.arg) \/ HasReservedFileArg(q.arg))
          => q.result.match
       /\ RedirectsToDevNullOnly(q.arg) => ~q.result.match

\* Pieces of commands for check_backslash_paths: drive paths bare, in single and in double quotes, a lone single quote, and paths whose first component starts with no letter.
BackslashTokens ==
    {<<"l","s">>,
     <<" ","C",":","\\","x">>,
     <<" ","'","D",":","\\","y","'">>,
     <<" ","i","t","'","s">>,
     <<" ","c",":","\\","1">>,
     <<" ","\"","E",":","\\","z","\"">>,
     <<" ","C",":","\\">>}

BackslashInputs == Words(BackslashTokens, MaxTokens)

\* check_backslash_paths is called on the command.
CallCheckBackslashPaths ==
    Returns([fn |-> "check_backslash_paths", arg |-> command,
             result |-> check_backslash_paths(command)])

\* A drive letter, a colon and a backslash stand at i.
DriveColonBackslashAt(s, i) ==
    /\ s[i] \in Letters
    /\ At(s, i + 1) = ":"
    /\ At(s, i + 2) = BS

\* A drive letter, a colon, a backslash and a letter stand at i.
DrivePathAt(s, i) == DriveColonBackslashAt(s, i) /\ At(s, i + 3) \in Letters

\* The number of single quotes before i is odd.
OddQuoteParity(s, i) == Count(Upto(s, i - 1), SQ) % 2 = 1

DirTokens ==
    {<<" ","/","b">>,
     <<" ","/","S">>,
     <<" ","/","n">>,
     <<" ","/","q">>,
     <<" ","/","w">>,
     <<" ","/","a",":","h">>,
     <<" ","/","z">>,
     <<"/","B">>,
     <<" ","x">>}

DirInputs ==
    {verb \o w : verb \in {<<"d","i","r">>, <<" ","D","i","r">>},
                 w \in Words(DirTokens, MaxTokens)}

\* fix_dir_windows_flags is called on the command.
CallFixDirWindowsFlags ==
    Returns([fn |-> "fix_dir_windows_flags", arg |-> command,
             result |-> fix_dir_windows_flags(command)])

\* The flag letters fix_dir_windows_flags consumes from a command that starts
\* with dir, and the rest it takes as the path.
ConsumedOf(s) == DirConsume(<<>>, Strip(From(Strip(s), 4)))

\* The ls equivalents of the flags: the mapped values that are not empty.
MappedOf(flags) ==
    {_DIR_FLAG_MAP[flags[k]] : k \in 1..Len(flags)} \ {<<>>}

\* The index of the first flag with the given equivalent.
FirstGiven(flags, mapped) ==
    CHOOSE k \in 1..Len(flags) :
        /\ _DIR_FLAG_MAP[flags[k]] = mapped
        /\ \A j \in 1..(k - 1) : _DIR_FLAG_MAP[flags[j]] # mapped

\* The equivalents, each once, in the order of their first occurrence.
OnceInFirstOrder(flags) ==
    CHOOSE r \in [1..Cardinality(MappedOf(flags)) -> MappedOf(flags)] :
        \A a, b \in DOMAIN r :
            a < b => FirstGiven(flags, r[a]) < FirstGiven(flags, r[b])

\* ls, the flags and the path, separated by single spaces.
LsCommand(ls_flags, path) ==
    LET f[k \in 0..Len(ls_flags)] ==
            IF k = 0 THEN <<"l","s">> ELSE f[k - 1] \o <<" ">> \o ls_flags[k]
    IN  f[Len(ls_flags)] \o (IF path = <<>> THEN <<>> ELSE <<" ">> \o path)

\* C15: fix_dir_windows_flags on a command that starts with dir and has
\* leading flags: when a consumed flag is not one of b, s, a, w, n, q the
\* result is the input itself; when all are, the result is ls with exactly the
\* equivalents of the flags, each once in first-occurrence order, and the path.
C15_NoPartialTranslation ==
    (/\ pc = "returned"
     /\ q.fn = "fix_dir_windows_flags"
     /\ LitAtCI(Strip(q.arg), 1, <<"d","i","r">>)
     /\ ConsumedOf(q.arg).flags # <<>>)
    => LET c == ConsumedOf(q.arg)
       IN  IF \E k \in 1..Len(c.flags) :
                  c.flags[k] \notin {"b", "s", "a", "w", "n", "q"}
           THEN q.result = q.arg
           ELSE q.result = LsCommand(OnceInFirstOrder(c.flags), Strip(c.rest))

\* fix_dir_windows_flags has translated a command with two flags that have
\* the same ls equivalent, and one with a flag that has none.
C15_Witness ==
    /\ pc = "returned"
    /\ q.fn = "fix_dir_windows_flags"
    /\ q.result # q.arg
    /\ LET flags == ConsumedOf(q.arg).flags
       IN  /\ Len(flags) = MaxTokens
           /\ \E j, k \in 1..Len(flags) :
                 j < k /\ _DIR_FLAG_MAP[flags[j]] = _DIR_FLAG_MAP[flags[k]]
                 /\ _DIR_FLAG_MAP[flags[j]] # <<>>

\* C16: a run on dir /b /s C:\temp under the built-in defaults, with the audit
\* log writable, ends with exit status 0 and one payload whose command is
\* ls -1 -R C:/temp.
C16_Scenario1 ==
    (/\ pc = "exit"
     /\ IsCommandRun
     /\ request.command = c_scenario1
     /\ config = DefaultConfig
     /\ ~io_failed)
    => /\ exit_code = 0
       /\ Len(stdout) = 1
       /\ stdout[1].command
            = <<"l","s"," ","-","1"," ","-","R"," ","C",":","/","t","e","m","p">>

(***************************************************************************)
(* Two invocations that write the audit log at the same time.  Of the      *)
(* second one only _log_entry is followed: its append and its trim, one    *)
(* file operation a step, between the steps of the first.                  *)
(***************************************************************************)
\* The entry of the second invocation: it rejects ls /mnt/c/x a moment later.
PeerEntry == log_fixup(2, c_mnt, Finding("wsl_paths", c_mnt, FALSE, TRUE))

InitConc ==
    /\ Fresh
    /\ request \in SeqRequests
    /\ config \in SeqConfigs
    /\ in_wsl = FALSE
    /\ log \in SeqLogs
    /\ log_before = log
    /\ clock = 1
    /\ q = NoCall
    /\ peer = [pc |-> "log_append", entry |-> PeerEntry, lines |-> <<>>,
               log0 |-> Len(log)]

\* What a step of the second invocation leaves alone: all of the first but the
\* log file.
ownvars ==
    <<pc, request, config, in_wsl, clock, q, mainvars, entry, after_log,
      pending_msg, lines, appended, log_before, io_failed, stdout, stderr,
      exit_code, evaluated, rejected_by, reached_done, pwsh_in>>

\* open(FIXUPS_LOG, "w") in the place of "a": the file is emptied first.
PeerAppendLine_truncates ==
    /\ peer.pc = "log_append"
    /\ log' = <<peer.entry>>
    /\ peer' = [peer EXCEPT !.pc = "trim_read"]
    /\ UNCHANGED ownvars

\* with open(FIXUPS_LOG, "a") as f: f.write(json.dumps(entry) + "\n")  (124-125)
PeerAppendLine ==
    /\ peer.pc = "log_append"
    /\ log' = Append(log, peer.entry)
    /\ peer' = [peer EXCEPT !.pc = "trim_read"]
    /\ UNCHANGED ownvars

\* lines = FIXUPS_LOG.read_text().splitlines(); if len(lines) > MAX_LOG_LINES  (99-102)
PeerTrimRead ==
    /\ peer.pc = "trim_read"
    /\ peer' = [peer EXCEPT !.lines = log,
                            !.pc = IF Len(log) > MAX_LOG_LINES
                                   THEN "trim_open" ELSE "returned"]
    /\ UNCHANGED <<log, ownvars>>

\* FIXUPS_LOG.write_text opens the file for writing, which empties it  (103)
PeerTrimOpen ==
    /\ peer.pc = "trim_open"
    /\ log' = <<>>
    /\ peer' = [peer EXCEPT !.pc = "trim_write"]
    /\ UNCHANGED ownvars

\* ... and writes "\n".join(lines[-TRIM_TO_LINES:]) + "\n"  (103-106)
PeerTrimWrite ==
    /\ peer.pc = "trim_write"
    /\ log' = LastLines(peer.lines, TRIM_TO_LINES)
    /\ peer' = [peer EXCEPT !.pc = "returned"]
    /\ UNCHANGED ownvars

NextConc ==
    \/ Step
    \/ PeerAppendLine
    \/ PeerTrimRead
    \/ PeerTrimOpen
    \/ PeerTrimWrite

\* Two invocations, their file operations interleaved in any order.
SpecConc == InitConc /\ [][NextConc]_vars

FnInputs == FixInputs \cup ReservedInputs \cup BackslashInputs \cup DirInputs

\* A process that has loaded the module and holds a command to call a check
\* or a fixer on.
InitFn ==
    /\ pc = "lib"
    /\ command \in FnInputs
    /\ original = command
    /\ fixes = <<>>
    /\ vidx = 1
    /\ fidx = 1
    /\ stdout = <<>>
    /\ stderr = <<>>
    /\ exit_code = -1
    /\ entry = NoEntry
    /\ after_log = ""
    /\ pending_msg = NoMsg
    /\ lines = <<>>
    /\ evaluated = <<>>
    /\ appended = <<>>
    /\ rejected_by = ""
    /\ reached_done = FALSE
    /\ pwsh_in = <<>>
    /\ io_failed = FALSE
    /\ request = Req("object", "absent", "absent", <<>>)
    /\ config = DefaultConfig
    /\ in_wsl = FALSE
    /\ log = OldLog(0)
    /\ log_before = log
    /\ clock = 1
    /\ q = NoCall
    /\ peer = NoPeer

NextFn ==
    \/ CallFixAllTwice
    \/ CallCheckReservedNames
    \/ CallCheckBackslashPaths
    \/ CallFixDirWindowsFlags

\* One call of a check or a fixer on a generated command.
SpecFn == InitFn /\ [][NextFn]_vars

====
